---- MODULE Spec2Model ----
(***************************************************************************)
(* Checkers board (src/src/board.rs) and Monte Carlo tree search           *)
(* (src/src/montecarlo.rs) as a state machine.                             *)
(*                                                                         *)
(* Values of Rust enums are records with a "tag" field; Option<T> is       *)
(* None / Some(v); a panic of the program is the value Fatal.              *)
(***************************************************************************)
EXTENDS Integers, Sequences, FiniteSets, TLC

VARIABLES
    board,        \* the Board being played: internal_state, current_turn, last_turn
    ret,          \* what the last make_random_move call returned (NoCall before any)
    act,          \* the action the last make_random_move call executed, if any
    plies,        \* number of actions executed on board so far
    op,           \* the operation of Board called last ("new" before any)
    tree,         \* the Tree: root, arena (nodes with their parent links), board_arena
    pc,           \* where get_monte_carlo_move stands: "idle", "search", "playout", "done"
    iters,        \* iterations of the search loop completed
    test_node,    \* the node whose play_out is running
    copy_board,   \* the board of the running play_out
    played,       \* moves made so far in the running play_out
    result,       \* what get_monte_carlo_move returned (NoCall before it returns)
    static_list,  \* a StaticList under push, clear and get
    pushed_items, \* the items pushed on static_list since its last clear, in order
    get_index,    \* the index of the last get on static_list
    got           \* what the last get on static_list returned (NoCall before any)

boardVars == <<board, ret, act, plies, op>>
treeVars == <<tree, pc, iters, test_node, copy_board, played, result>>
listVars == <<static_list, pushed_items, get_index, got>>
vars == <<board, ret, act, plies, op, tree, pc, iters, test_node, copy_board, played, result,
          static_list, pushed_items, get_index, got>>

-----------------------------------------------------------------------------
(* Bounds of the model *)

\* executed actions per game of the self-play loop
MaxPlies == 4
\* iterations of the search loop (10000 in the source)
MaxIters == 3
\* moves followed in one play_out
MaxPlayout == 8

-----------------------------------------------------------------------------
(* Primitive types *)

None == [tag |-> "None"]
Some(v) == [tag |-> "Some", val |-> v]
Fatal == [tag |-> "Fatal"]
NoCall == [tag |-> "NoCall"]

Black == "Black"
Red == "Red"
Color == {Black, Red}

Empty == [tag |-> "Empty"]
Filled(color, king) == [tag |-> "Filled", color |-> color, king |-> king]

Move(x, y, nx, ny) ==
    [tag |-> "Move", x |-> x, y |-> y, nx |-> nx, ny |-> ny]
Capture(x, y, nx, ny, cx, cy) ==
    [tag |-> "Capture", x |-> x, y |-> y, nx |-> nx, ny |-> ny, cx |-> cx, cy |-> cy]

STATIC_SIZE == 25

KING_MOVES == << <<1, 1>>, <<-1, 1>>, <<1, -1>>, <<-1, -1>> >>
BLACK_MOVES == << <<1, 1>>, <<-1, 1>> >>
RED_MOVES == << <<1, -1>>, <<-1, -1>> >>

\* `as usize` of an i32: a negative value wraps to a huge one.  usize is 64
\* bits wide in the build and TLC's integers 32, so the wrap is taken modulo
\* UsizeModulus; all the code does with the result is compare it with 8.
UsizeModulus == 1073741824
AsUsize(v) == v % UsizeModulus

opposite(color) == IF color = Black THEN Red ELSE Black

-----------------------------------------------------------------------------
(* StaticList<T>: mem is the array of STATIC_SIZE slots, len the length *)

StaticList_new == [mem |-> [i \in 0..(STATIC_SIZE - 1) |-> None], len |-> 0]

\* push panics when the list is full
StaticList_push(list, item) ==
    IF list = Fatal THEN Fatal
    ELSE IF list.len >= STATIC_SIZE THEN Fatal
    ELSE [mem |-> [list.mem EXCEPT ![list.len] = Some(item)], len |-> list.len + 1]

StaticList_len(list) == list.len

StaticList_clear(list) == [list EXCEPT !.len = 0]

\* mem[index].unwrap(): panics out of the array and on an unset slot
StaticList_get(list, index) ==
    IF index >= STATIC_SIZE THEN Fatal
    ELSE IF list.mem[index] = None THEN Fatal
    ELSE list.mem[index].val

\* a list nothing was done with yet
FreshList ==
    /\ static_list = StaticList_new
    /\ pushed_items = << >>
    /\ get_index = 0
    /\ got = NoCall

-----------------------------------------------------------------------------
(* MoveMemHandler: the captures and the moves found so far.  A handler one *)
(* of whose lists panicked is Fatal.                                       *)

MoveMemHandler_new == [captures |-> StaticList_new, moves |-> StaticList_new]

MutContainsCaptureNever(mm) == FALSE
contains_capture(mm) == StaticList_len(mm.captures) > 0

add_capture(mm, action) ==
    LET pushed == StaticList_push(mm.captures, action)
    IN  IF pushed = Fatal THEN Fatal ELSE [mm EXCEPT !.captures = pushed]

add_move(mm, action) ==
    IF ~contains_capture(mm)
    THEN LET pushed == StaticList_push(mm.moves, action)
         IN  IF pushed = Fatal THEN Fatal ELSE [mm EXCEPT !.moves = pushed]
    ELSE mm

add_action(mm, action) ==
    IF mm = Fatal THEN Fatal
    ELSE IF action.tag = "Capture" THEN add_capture(mm, action)
    ELSE add_move(mm, action)

MoveMemHandler_get(mm, index) ==
    IF contains_capture(mm) THEN StaticList_get(mm.captures, index)
    ELSE StaticList_get(mm.moves, index)

MoveMemHandler_clear(mm) ==
    [captures |-> StaticList_clear(mm.captures), moves |-> StaticList_clear(mm.moves)]

MutHasActionsMovesOnly(mm) == StaticList_len(mm.moves) > 0
has_actions(mm) ==
    StaticList_len(mm.captures) > 0 \/ StaticList_len(mm.moves) > 0

MoveMemHandler_len(mm) ==
    IF contains_capture(mm) THEN StaticList_len(mm.captures)
    ELSE StaticList_len(mm.moves)

\* the actions a caller can read through len() and get(i), in order
ExposedActions(mm) ==
    [i \in 1..MoveMemHandler_len(mm) |-> MoveMemHandler_get(mm, i - 1)]

\* get_random_move: gen_range picks any index below the length of the list
\* that is in use
RandomMoves(mm) ==
    IF contains_capture(mm)
    THEN {StaticList_get(mm.captures, i) : i \in 0..(StaticList_len(mm.captures) - 1)}
    ELSE {StaticList_get(mm.moves, i) : i \in 0..(StaticList_len(mm.moves) - 1)}

-----------------------------------------------------------------------------
(* Piece *)

get_dirs(piece) ==
    IF piece.tag = "Filled"
    THEN IF piece.king THEN KING_MOVES
         ELSE IF piece.color = Red THEN RED_MOVES ELSE BLACK_MOVES
    ELSE << >>

MutKingYConSwapped(piece) ==
    IF piece.tag = "Filled" THEN (IF piece.color = Black THEN 0 ELSE 7) ELSE 4
king_y_con(piece) ==
    IF piece.tag = "Filled" THEN (IF piece.color = Black THEN 7 ELSE 0) ELSE 4

-----------------------------------------------------------------------------
(* Board *)

Board_new(starting_color) ==
    [internal_state |-> [i \in 0..63 |-> Empty],
     current_turn |-> starting_color,
     last_turn |-> None]

get_piece(b, x, y) ==
    IF x >= 8 \/ y >= 8 THEN None ELSE Some(b.internal_state[y * 8 + x])

set_piece(b, x, y, piece) ==
    [b EXCEPT !.internal_state[y * 8 + x] = piece]

\* get_action without the comparison of the colors
MutGetActionAnyColor(b, x, y, xd, yd, piece) ==
    LET cx == AsUsize(x + xd)
        cy == AsUsize(y + yd)
        mx == AsUsize(x + xd * 2)
        my == AsUsize(y + yd * 2)
        capture == get_piece(b, cx, cy)
        move_to == get_piece(b, mx, my)
    IN  IF piece.tag = "Filled"
        THEN IF capture.tag = "Some"
             THEN IF capture.val.tag = "Empty"
                  THEN Some(Move(x, y, cx, cy))
                  ELSE IF move_to.tag = "Some"
                       THEN IF move_to.val.tag = "Filled" THEN None
                            ELSE Some(Capture(x, y, mx, my, cx, cy))
                       ELSE None
             ELSE None
        ELSE None

get_action(b, x, y, xd, yd, piece) ==
    LET cx == AsUsize(x + xd)
        cy == AsUsize(y + yd)
        mx == AsUsize(x + xd * 2)
        my == AsUsize(y + yd * 2)
        capture == get_piece(b, cx, cy)
        move_to == get_piece(b, mx, my)
    IN  IF piece.tag = "Filled"
        THEN IF capture.tag = "Some"
             THEN IF capture.val.tag = "Empty"
                  THEN Some(Move(x, y, cx, cy))
                  ELSE IF capture.val.color # piece.color
                       THEN IF move_to.tag = "Some"
                            THEN IF move_to.val.tag = "Filled" THEN None
                                 ELSE Some(Capture(x, y, mx, my, cx, cy))
                            ELSE None
                       ELSE None
             ELSE None
        ELSE None

extract_actions(b, x, y, mm, xd, yd, piece) ==
    LET action_maybe == get_action(b, x, y, xd, yd, piece)
    IN  IF action_maybe.tag = "Some" THEN add_action(mm, action_maybe.val) ELSE mm

\* the for loop of get_actions over the directions dirs[k..].  Each turn of
\* the loop works on the value the turn before it left.
RECURSIVE GetActionsFrom(_, _, _, _, _, _, _)
GetActionsFrom(b, x, y, mm, piece, dirs, k) ==
    IF mm = Fatal \/ k > Len(dirs) THEN mm
    ELSE CHOOSE done \in
             {GetActionsFrom(b, x, y, next, piece, dirs, k + 1) :
                 next \in {extract_actions(b, x, y, mm, dirs[k][1], dirs[k][2], piece)}} :
             TRUE

get_actions(b, x, y, mm) ==
    LET piece == get_piece(b, x, y).val
    IN  GetActionsFrom(b, x, y, mm, piece, get_dirs(piece), 1)

\* the x loop of get_all_actions in row y, from column x on.  Each turn of
\* the loop works on the value the turn before it left.
RECURSIVE ScanRow(_, _, _, _)
ScanRow(b, y, x, mm) ==
    IF mm = Fatal \/ x = 8 THEN mm
    ELSE LET piece == get_piece(b, x, y).val
         IN  CHOOSE done \in
                 {ScanRow(b, y, x + 1, next) :
                     next \in {IF piece.tag = "Filled" /\ piece.color = b.current_turn
                               THEN get_actions(b, x, y, mm)
                               ELSE mm}} :
                 TRUE

\* the y loop of get_all_actions from row y on
RECURSIVE ScanSquares(_, _, _)
ScanSquares(b, y, mm) ==
    IF mm = Fatal \/ y = 8 THEN mm
    ELSE CHOOSE done \in
             {ScanSquares(b, y + 1, next) : next \in {ScanRow(b, y, 0, mm)}} :
             TRUE

get_all_actions(b, move_mem) ==
    ScanSquares(b, 0, MoveMemHandler_clear(move_mem))

\* some direction of the piece on (x, y) gives a capture
piece_has_capture(b, x, y) ==
    LET piece == get_piece(b, x, y)
    IN  /\ piece.tag = "Some"
        /\ LET dirs == get_dirs(piece.val)
           IN  \E k \in 1..Len(dirs) :
                   LET action == get_action(b, x, y, dirs[k][1], dirs[k][2], piece.val)
                   IN  action.tag = "Some" /\ action.val.tag = "Capture"

king_piece(b, x, y) ==
    LET ptr == y * 8 + x
    IN  IF b.internal_state[ptr].tag = "Filled"
        THEN [b EXCEPT !.internal_state[ptr] = Filled(b.internal_state[ptr].color, TRUE)]
        ELSE Fatal

MutExecuteMoveKeepsFrom(b, action) ==
    LET piece == get_piece(b, action.x, action.y).val
    IN  IF action.tag = "Move"
        THEN LET b2 == set_piece(b, action.nx, action.ny, piece)
                 b3 == IF action.ny = king_y_con(piece)
                       THEN king_piece(b2, action.nx, action.ny)
                       ELSE b2
             IN  [b3 EXCEPT !.last_turn = Some(b.current_turn),
                            !.current_turn = opposite(b.current_turn)]
        ELSE LET b1 == set_piece(b, action.x, action.y, Empty)
                 b2 == set_piece(b1, action.cx, action.cy, Empty)
                 b3 == set_piece(b2, action.nx, action.ny, piece)
                 b4 == IF action.ny = king_y_con(piece)
                       THEN king_piece(b3, action.nx, action.ny)
                       ELSE b3
             IN  IF ~piece_has_capture(b4, action.nx, action.ny)
                 THEN [b4 EXCEPT !.last_turn = Some(b.current_turn)]
                 ELSE b4

\* execute_action leaving the captured piece on its square
MutExecuteCaptureKeepsCaptured(b, action) ==
    LET piece == get_piece(b, action.x, action.y).val
    IN  IF action.tag = "Move"
        THEN LET b1 == set_piece(b, action.x, action.y, Empty)
                 b2 == set_piece(b1, action.nx, action.ny, piece)
                 b3 == IF action.ny = king_y_con(piece)
                       THEN king_piece(b2, action.nx, action.ny)
                       ELSE b2
             IN  IF b3 = Fatal THEN Fatal
                 ELSE [b3 EXCEPT !.last_turn = Some(b.current_turn),
                                 !.current_turn = opposite(b.current_turn)]
        ELSE LET b1 == set_piece(b, action.x, action.y, Empty)
                 b3 == set_piece(b1, action.nx, action.ny, piece)
                 b4 == IF action.ny = king_y_con(piece)
                       THEN king_piece(b3, action.nx, action.ny)
                       ELSE b3
             IN  IF b4 = Fatal THEN Fatal
                 ELSE IF ~piece_has_capture(b4, action.nx, action.ny)
                      THEN [b4 EXCEPT !.last_turn = Some(b.current_turn)]
                      ELSE b4

\* a Capture never changes current_turn: the arm has no assignment to it
execute_action(b, action) ==
    LET piece == get_piece(b, action.x, action.y).val
    IN  IF action.tag = "Move"
        THEN LET b1 == set_piece(b, action.x, action.y, Empty)
                 b2 == set_piece(b1, action.nx, action.ny, piece)
                 b3 == IF action.ny = king_y_con(piece)
                       THEN king_piece(b2, action.nx, action.ny)
                       ELSE b2
             IN  IF b3 = Fatal THEN Fatal
                 ELSE [b3 EXCEPT !.last_turn = Some(b.current_turn),
                                 !.current_turn = opposite(b.current_turn)]
        ELSE LET b1 == set_piece(b, action.x, action.y, Empty)
                 b2 == set_piece(b1, action.cx, action.cy, Empty)
                 b3 == set_piece(b2, action.nx, action.ny, piece)
                 b4 == IF action.ny = king_y_con(piece)
                       THEN king_piece(b3, action.nx, action.ny)
                       ELSE b3
             IN  IF b4 = Fatal THEN Fatal
                 ELSE IF ~piece_has_capture(b4, action.nx, action.ny)
                      THEN [b4 EXCEPT !.last_turn = Some(b.current_turn)]
                      ELSE b4

\* the two loops of reset: only the 24 starting squares are written
reset(b) ==
    [b EXCEPT !.internal_state =
        [i \in 0..63 |->
            LET x == i % 8
                y == i \div 8
            IN  IF y \in 0..2 /\ (x + y) % 2 = 0 THEN Filled(Black, FALSE)
                ELSE IF y \in 5..7 /\ (x + y) % 2 = 0 THEN Filled(Red, FALSE)
                ELSE b.internal_state[i]]]

-----------------------------------------------------------------------------
(* Boards the program is started on.  main.rs plays from                   *)
(* Board::new(Color::Black) after reset(); the other positions are built   *)
(* with set_piece on a new board, as the spec's scenarios are, and are     *)
(* positions of a game in progress: pieces on squares with (x + y) even,   *)
(* no man on its own kinging row.                                          *)

\* a placement is <<x, y, piece>>
RECURSIVE PlaceAll(_, _, _)
PlaceAll(b, placements, k) ==
    IF k > Len(placements) THEN b
    ELSE PlaceAll(set_piece(b, placements[k][1], placements[k][2], placements[k][3]),
                  placements, k + 1)

Position(starting_color, placements) ==
    PlaceAll(Board_new(starting_color), placements, 1)

bm == Filled(Black, FALSE)
rm == Filled(Red, FALSE)
bk == Filled(Black, TRUE)
rk == Filled(Red, TRUE)

StandardStart == reset(Board_new(Black))

\* one capture, nothing else (scenario B of the spec)
SingleCapture == Position(Black, << <<3, 3, bm>>, <<4, 4, rm>> >>)
\* the same with Red to move
SingleCaptureRed == Position(Red, << <<3, 3, bm>>, <<4, 4, rm>> >>)
\* a chain of two captures by the man on (1, 1), then Red can recapture
DoubleCapture ==
    Position(Black, << <<1, 1, bm>>, <<2, 2, rm>>, <<4, 4, rm>>, <<7, 7, rm>> >>)
\* a capture that promotes on (3, 7) and continues backwards as a king
CaptureToKing ==
    Position(Black, << <<1, 5, bm>>, <<2, 6, rm>>, <<4, 6, rm>>, <<7, 1, rm>> >>)
\* men one step from promotion on both sides
NearKing == Position(Black, << <<2, 6, bm>>, <<5, 1, rm>> >>)
\* a man that can move and another that can capture, found in that order
MoveThenCapture ==
    Position(Black, << <<0, 0, bm>>, <<3, 3, bm>>, <<4, 4, rm>>, <<6, 6, rm>> >>)
\* the side to move has no piece
NoPieces == Position(Red, << <<1, 7, bk>> >>)
\* the side to move has a piece and no action
Blocked == Position(Red, << <<0, 2, rm>>, <<1, 1, bm>>, <<2, 0, bm>> >>)
\* kings of both sides
Kings == Position(Red, << <<2, 2, rk>>, <<5, 5, bk>>, <<4, 6, bm>> >>)

\* Board::new before anything is placed
NewBoard == Board_new(Black)

StartBoards ==
    {NewBoard, StandardStart, SingleCapture, SingleCaptureRed, DoubleCapture, CaptureToKing,
     NearKing, MoveThenCapture, NoPieces, Blocked, Kings}

-----------------------------------------------------------------------------
(* The self-play loop: make_random_move again and again on one board *)

\* make_random_move on board b, as the set of its possible outcomes: the
\* board afterwards, the value returned and the action executed.  The
\* handler is cleared on entry and on exit, so what it held before does not
\* reach the next call.
make_random_move(b) ==
    LET outcomes(move_mem) ==
            IF move_mem = Fatal
            THEN {[board |-> Fatal, ret |-> Fatal, act |-> None]}
            ELSE IF ~has_actions(move_mem)
            THEN {[board |-> b, ret |-> Some(opposite(b.current_turn)), act |-> None]}
            ELSE {[board |-> execute_action(b, a), ret |-> None, act |-> Some(a)] :
                     a \in RandomMoves(move_mem)}
    IN  UNION {outcomes(mm) :
                  mm \in {get_all_actions(b, MoveMemHandler_clear(MoveMemHandler_new))}}

NoTree == [root |-> 0, arena |-> << >>, board_arena |-> << >>]

Init ==
    /\ board \in StartBoards
    /\ ret = NoCall
    /\ act = None
    /\ plies = 0
    /\ op = "new"
    /\ tree = NoTree
    /\ pc = "idle"
    /\ iters = 0
    /\ test_node = 0
    /\ copy_board = None
    /\ played = 0
    /\ result = NoCall
    /\ FreshList

\* one call of make_random_move on the board
play_random_move ==
    /\ board # Fatal
    /\ plies < MaxPlies
    /\ op' = "make_random_move"
    /\ \E o \in make_random_move(board) :
           /\ board' = o.board
           /\ ret' = o.ret
           /\ act' = o.act
           /\ plies' = IF o.act.tag = "Some" THEN plies + 1 ELSE plies
    /\ UNCHANGED <<treeVars, listVars>>

Next == play_random_move

Spec == Init /\ [][Next]_vars

\* reset() called on the board at any point of the game
reset_board ==
    /\ board # Fatal
    /\ op # "reset"
    /\ board' = reset(board)
    /\ op' = "reset"
    /\ UNCHANGED <<ret, act, plies>>
    /\ UNCHANGED <<treeVars, listVars>>

\* the game up to the call of reset; the game after it is not followed
play_until_reset == op # "reset" /\ play_random_move

NextReset == play_until_reset \/ reset_board

SpecReset == Init /\ [][NextReset]_vars

-----------------------------------------------------------------------------
(* A game from the standard start in which the draws of get_random_move    *)
(* follow a given line for its first plies                                 *)

\* the actions drawn, ply by ply
GameLine ==
    << Move(4, 2, 5, 3), Move(5, 5, 4, 4), Move(3, 1, 4, 2), Move(4, 4, 3, 3),
       Capture(2, 2, 4, 4, 3, 3), Move(1, 1, 2, 2), Move(3, 5, 2, 4), Move(6, 2, 7, 3),
       Move(1, 5, 0, 4), Move(7, 1, 6, 2), Move(2, 6, 1, 5), Move(4, 4, 3, 5),
       Move(1, 7, 2, 6), Capture(3, 5, 1, 7, 2, 6), Move(7, 3, 6, 4), Move(4, 6, 3, 5),
       Move(6, 2, 7, 3), Move(3, 7, 4, 6), Move(5, 1, 6, 2), Move(4, 6, 5, 5),
       Capture(6, 4, 4, 6, 5, 5), Move(4, 6, 3, 7), Move(6, 6, 5, 5), Move(0, 0, 1, 1),
       Move(5, 7, 6, 6), Move(6, 0, 7, 1), Move(5, 5, 6, 4), Capture(7, 3, 5, 5, 6, 4),
       Move(5, 5, 4, 6), Move(6, 6, 5, 5), Move(4, 6, 5, 7), Move(3, 5, 4, 4),
       Capture(5, 3, 3, 5, 4, 4), Move(3, 5, 2, 6), Move(5, 5, 4, 4), Move(3, 7, 4, 6),
       Move(7, 7, 6, 6), Move(2, 6, 3, 7), Move(4, 4, 3, 3), Capture(2, 2, 4, 4, 3, 3),
       Move(4, 2, 5, 3), Move(2, 4, 3, 3), Move(6, 2, 7, 3), Move(3, 3, 4, 2),
       Move(1, 1, 2, 2), Move(6, 6, 5, 5), Capture(4, 4, 6, 6, 5, 5), Move(6, 6, 7, 7),
       Move(1, 5, 2, 4), Move(4, 6, 5, 5), Move(0, 6, 1, 5), Move(2, 2, 3, 3),
       Move(0, 4, 1, 3), Move(3, 3, 4, 4), Move(1, 3, 2, 2), Move(4, 4, 3, 5),
       Move(1, 5, 0, 4), Move(1, 7, 0, 6), Move(2, 2, 1, 1), Move(3, 7, 2, 6),
       Move(1, 1, 0, 0), Move(3, 5, 4, 6), Move(2, 4, 3, 3), Move(4, 6, 3, 7),
       Move(0, 0, 1, 1), Move(2, 6, 3, 5), Move(1, 1, 0, 0), Move(3, 5, 2, 4),
       Move(3, 3, 2, 2), Move(3, 7, 2, 6), Move(0, 0, 1, 1), Move(5, 7, 4, 6),
       Move(1, 1, 0, 0) >>

\* the boards of the line: boards[k + 1] is the board after k plies
RECURSIVE PlayLine(_, _)
PlayLine(boards, k) ==
    IF k > Len(GameLine) THEN boards
    ELSE PlayLine(Append(boards, execute_action(boards[k], GameLine[k])), k + 1)

LineBoards == PlayLine(<< StandardStart >>, 1)

InitLine ==
    /\ board = StandardStart
    /\ ret = NoCall
    /\ act = None
    /\ plies = 0
    /\ op = "new"
    /\ tree = NoTree
    /\ pc = "idle"
    /\ iters = 0
    /\ test_node = 0
    /\ copy_board = None
    /\ played = 0
    /\ result = NoCall
    /\ FreshList

\* one call of make_random_move in the game that has followed the line so
\* far: it draws the next action of the line, which must be in the list, and
\* any action of the list once the line has ended
play_line_move ==
    /\ board # Fatal
    /\ plies <= Len(GameLine)
    /\ board = LineBoards[plies + 1]
    /\ op' = "make_random_move"
    /\ \E o \in make_random_move(board) :
           /\ plies < Len(GameLine) => o.act = Some(GameLine[plies + 1])
           /\ board' = o.board
           /\ ret' = o.ret
           /\ act' = o.act
           /\ plies' = IF o.act.tag = "Some" THEN plies + 1 ELSE plies
    /\ UNCHANGED <<treeVars, listVars>>

NextLine == play_random_move \/ play_line_move

SpecLine == InitLine /\ [][NextLine]_vars

-----------------------------------------------------------------------------
(* f32 values of uct_value, in fixed point: FxOne stands for 1.0.  The      *)
(* values are Infinity, NaN or Finite(v).                                   *)

FxOne == 1024
\* UCT_CONST = 1.141 in fixed point
UCT_CONST == 1168

Infinity == [tag |-> "Infinity"]
NaN == [tag |-> "NaN"]
Finite(v) == [tag |-> "Finite", val |-> v]

\* the integer part of log2(num / den), for num >= den
RECURSIVE Log2Int(_, _)
Log2Int(num, den) == IF num >= 2 * den THEN 1 + Log2Int(num, 2 * den) ELSE 0

\* the fraction bits of log2(x / FxOne) from `bit` down, for FxOne <= x < 2 FxOne
RECURSIVE Log2Frac(_, _)
Log2Frac(x, bit) ==
    IF bit = 0 THEN 0
    ELSE LET sq == (x * x) \div FxOne
         IN  IF sq >= 2 * FxOne
             THEN bit + Log2Frac(sq \div 2, bit \div 2)
             ELSE Log2Frac(sq, bit \div 2)

RECURSIVE Pow2(_)
Pow2(n) == IF n = 0 THEN 1 ELSE 2 * Pow2(n - 1)

\* log2(num / den) in fixed point, for num >= den > 0
Log2Fx(num, den) ==
    LET n == Log2Int(num, den)
    IN  n * FxOne + Log2Frac((num * FxOne) \div (den * Pow2(n)), FxOne \div 2)

\* the largest r in lo..hi with r * r <= n
RECURSIVE ISqrt(_, _, _)
ISqrt(n, lo, hi) ==
    IF lo >= hi THEN lo
    ELSE LET mid == (lo + hi + 1) \div 2
         IN  IF mid * mid <= n THEN ISqrt(n, mid, hi) ELSE ISqrt(n, lo, mid - 1)

\* sqrt(v / FxOne) in fixed point, for 0 <= v
SqrtFx(v) == ISqrt(v * FxOne, 0, 8 * FxOne)

\* partial_cmp of two f32 values: None when one of them is NaN
partial_cmp(a, b) ==
    IF a = NaN \/ b = NaN THEN None
    ELSE IF a = Infinity THEN (IF b = Infinity THEN Some("Equal") ELSE Some("Greater"))
    ELSE IF b = Infinity THEN Some("Less")
    ELSE IF a.val < b.val THEN Some("Less")
    ELSE IF a.val > b.val THEN Some("Greater")
    ELSE Some("Equal")

-----------------------------------------------------------------------------
(* Tree and NodeState.  A NodeId is an index of its arena; an arena entry  *)
(* is the NodeState with the parent link the arena keeps for it.  The      *)
(* children of a node are the entries that name it as parent, in the order *)
(* they were appended.                                                     *)

NodeState_new(b, board_arena) ==
    [node |-> [board |-> Len(board_arena) + 1, sims |-> 0, wins |-> 0,
               action_taken |-> None, loc |-> None, parent |-> None],
     board_arena |-> Append(board_arena, b)]

set_loc(node, loc) == [node EXCEPT !.loc = Some(loc)]

Tree_new(b) ==
    LET made == NodeState_new(b, << >>)
        root_id == 1
    IN  [root |-> root_id,
         arena |-> << set_loc(made.node, root_id) >>,
         board_arena |-> made.board_arena]

children(arena, id) ==
    LET IsChild(j) == arena[j].parent = Some(id)
    IN  SelectSeq([j \in 1..Len(arena) |-> j], IsChild)

\* the clone of the board under board_id with the action executed, stored as
\* a new board
new_child(board_id, action, board_arena) ==
    LET executed == execute_action(board_arena[board_id], action)
    IN  IF executed = Fatal THEN Fatal
        ELSE [node |-> [board |-> Len(board_arena) + 1, sims |-> 0, wins |-> 0,
                        action_taken |-> Some(action), loc |-> None, parent |-> None],
              board_arena |-> Append(board_arena, executed)]

\* the loop of expand from the index-th move on
RECURSIVE ExpandFrom(_, _, _, _)
ExpandFrom(t, self, moves, index) ==
    IF t = Fatal \/ index >= MoveMemHandler_len(moves) THEN t
    ELSE LET action == MoveMemHandler_get(moves, index)
             made == new_child(self.board, action, t.board_arena)
             id == Len(t.arena) + 1
         IN  IF action = Fatal \/ made = Fatal THEN Fatal
             ELSE ExpandFrom(
                      [t EXCEPT !.arena = Append(t.arena,
                                    [set_loc(made.node, id) EXCEPT !.parent = self.loc]),
                                !.board_arena = made.board_arena],
                      self, moves, index + 1)

\* expand with its loop started at index 1
MutExpandFromSecond(t, self) ==
    LET moves == get_all_actions(t.board_arena[self.board], MoveMemHandler_new)
    IN  IF moves = Fatal THEN Fatal ELSE ExpandFrom(t, self, moves, 1)

\* one child per action of the node's board, appended in the order of the list
expand(t, self) ==
    LET moves == get_all_actions(t.board_arena[self.board], MoveMemHandler_new)
    IN  IF moves = Fatal THEN Fatal ELSE ExpandFrom(t, self, moves, 0)

MutUctNoInfinity(self, node_id, arena) ==
    LET parent == arena[node_id].parent
        parent_sims == IF parent.tag = "Some" THEN arena[parent.val].sims ELSE 1
    IN  IF self.sims = 0 THEN Finite(0)
        ELSE IF UCT_CONST * parent_sims < FxOne * self.sims THEN NaN
        ELSE Finite((self.wins * FxOne) \div self.sims
                    + SqrtFx(Log2Fx(UCT_CONST * parent_sims, FxOne * self.sims)))

\* wins / sims + sqrt(log2(UCT_CONST * parent_sims / sims)); the logarithm of
\* a ratio below 1 is negative (minus infinity at 0) and its root is NaN
uct_value(self, node_id, arena) ==
    LET parent == arena[node_id].parent
        parent_sims == IF parent.tag = "Some" THEN arena[parent.val].sims ELSE 1
    IN  IF self.sims = 0 THEN Infinity
        ELSE IF UCT_CONST * parent_sims < FxOne * self.sims THEN NaN
        ELSE Finite((self.wins * FxOne) \div self.sims
                    + SqrtFx(Log2Fx(UCT_CONST * parent_sims, FxOne * self.sims)))

\* Iterator::max_by over ids[k..] with `best` the maximum so far: the later
\* element wins unless the earlier one compares Greater.  Some(id), or Fatal
\* when the comparison unwraps None.
RECURSIVE MaxByUct(_, _, _, _)
MaxByUct(arena, ids, k, best) ==
    IF k > Len(ids) THEN Some(best)
    ELSE LET ord == partial_cmp(uct_value(arena[best], best, arena),
                                uct_value(arena[ids[k]], ids[k], arena))
         IN  IF ord = None THEN Fatal
             ELSE MaxByUct(arena, ids, k + 1,
                           IF ord.val = "Greater" THEN best ELSE ids[k])

\* the descent from node `id` to a node without children: Some(id) or Fatal
RECURSIVE select_node(_, _)
select_node(arena, id) ==
    LET ids == children(arena, id)
    IN  IF Len(ids) = 0 THEN Some(id)
        ELSE LET select == MaxByUct(arena, ids, 2, ids[1])
             IN  IF select = Fatal THEN Fatal ELSE select_node(arena, select.val)

MutBackPropagateStopsAtNode(arena, board_arena, id, winning) ==
    LET self == arena[id]
        b == board_arena[self.board]
        credited == IF b.last_turn = Some(winning) THEN self.wins + 1 ELSE self.wins
    IN  [arena EXCEPT ![self.loc.val] =
            [@ EXCEPT !.wins = credited, !.sims = self.sims + 1]]

\* back_propagate leaving the node without parent as it is
RECURSIVE MutBackPropagateSkipsRoot(_, _, _, _)
MutBackPropagateSkipsRoot(arena, board_arena, id, winning) ==
    LET self == arena[id]
        b == board_arena[self.board]
        credited == IF b.last_turn = Some(winning) THEN self.wins + 1 ELSE self.wins
        updated == [arena EXCEPT ![self.loc.val] =
                       [@ EXCEPT !.wins = credited, !.sims = self.sims + 1]]
        parent == arena[self.loc.val].parent
    IN  IF parent.tag = "Some"
        THEN MutBackPropagateSkipsRoot(updated, board_arena, parent.val, winning)
        ELSE arena

\* back_propagate crediting every node of the path
RECURSIVE MutBackPropagateCreditsAll(_, _, _, _)
MutBackPropagateCreditsAll(arena, board_arena, id, winning) ==
    LET self == arena[id]
        updated == [arena EXCEPT ![self.loc.val] =
                       [@ EXCEPT !.wins = self.wins + 1, !.sims = self.sims + 1]]
        parent == arena[self.loc.val].parent
    IN  IF parent.tag = "Some"
        THEN MutBackPropagateCreditsAll(updated, board_arena, parent.val, winning)
        ELSE updated

\* sims and wins along the parent links from node `id` up to the root
RECURSIVE back_propagate(_, _, _, _)
back_propagate(arena, board_arena, id, winning) ==
    LET self == arena[id]
        b == board_arena[self.board]
        credited == IF b.last_turn = Some(winning) THEN self.wins + 1 ELSE self.wins
        updated == [arena EXCEPT ![self.loc.val] =
                       [@ EXCEPT !.wins = credited, !.sims = self.sims + 1]]
        parent == arena[self.loc.val].parent
    IN  IF parent.tag = "Some"
        THEN back_propagate(updated, board_arena, parent.val, winning)
        ELSE updated

\* Iterator::max_by on sims over ids[k..]
RECURSIVE MaxBySims(_, _, _, _)
MaxBySims(arena, ids, k, best) ==
    IF k > Len(ids) THEN best
    ELSE MaxBySims(arena, ids, k + 1,
                   IF arena[best].sims > arena[ids[k]].sims THEN best ELSE ids[k])

RECURSIVE MutMinBySims(_, _, _, _)
MutMinBySims(arena, ids, k, best) ==
    IF k > Len(ids) THEN best
    ELSE MutMinBySims(arena, ids, k + 1,
                      IF arena[best].sims < arena[ids[k]].sims THEN best ELSE ids[k])

MutSelectBestFewestSims(t) ==
    LET ids == children(t.arena, t.root)
    IN  IF Len(ids) = 0 THEN Fatal
        ELSE t.arena[MutMinBySims(t.arena, ids, 2, ids[1])].action_taken.val

\* select_best_move taking the node with the most sims among all the nodes
\* below the root, not among its children only
MutSelectBestAnyNode(t) ==
    LET ids == [k \in 1..(Len(t.arena) - 1) |-> k + 1]
    IN  IF Len(children(t.arena, t.root)) = 0 THEN Fatal
        ELSE t.arena[MaxBySims(t.arena, ids, 2, ids[1])].action_taken.val

\* the action of the root's child with the most sims; max.unwrap() panics
\* when the root has no child
select_best_move(t) ==
    LET ids == children(t.arena, t.root)
    IN  IF Len(ids) = 0 THEN Fatal
        ELSE t.arena[MaxBySims(t.arena, ids, 2, ids[1])].action_taken.val

\* the children of a node pushed on a StaticList, as expand_tree does
RECURSIVE PushAll(_, _, _)
PushAll(list, ids, k) ==
    IF list = Fatal \/ k > Len(ids) THEN list
    ELSE PushAll(StaticList_push(list, ids[k]), ids, k + 1)

-----------------------------------------------------------------------------
(* The search: Tree::new(board) and then get_monte_carlo_move, followed    *)
(* step by step through its loop and the loop of play_out                  *)

\* a man of each side, two moves for Black
ApproachingMen == Position(Black, << <<3, 3, bm>>, <<4, 6, rm>> >>)
\* two captures for Black, one of them the start of a chain
TwoCaptures ==
    Position(Black, << <<1, 1, bm>>, <<5, 1, bm>>, <<2, 2, rm>>, <<4, 4, rm>>, <<6, 2, rm>> >>)

\* the position of Blocked with Black to move: two moves, captures follow
EdgeFight == Position(Black, << <<0, 2, rm>>, <<1, 1, bm>>, <<2, 0, bm>> >>)

RootBoards ==
    {SingleCapture, DoubleCapture, Blocked, NoPieces, ApproachingMen, TwoCaptures, EdgeFight}

InitTree ==
    /\ board \in RootBoards
    /\ ret = NoCall
    /\ act = None
    /\ plies = 0
    /\ op = "new"
    /\ tree = Tree_new(board)
    /\ pc = "idle"
    /\ iters = 0
    /\ test_node = 0
    /\ copy_board = None
    /\ played = 0
    /\ result = NoCall
    /\ FreshList

MutStartSearchNoShortcut ==
    /\ pc = "idle"
    /\ tree' = expand(tree, tree.arena[tree.root])
    /\ pc' = "search"
    /\ UNCHANGED <<iters, test_node, copy_board, played, result>>
    /\ UNCHANGED <<boardVars, listVars>>

\* get_monte_carlo_move up to its loop: the shortcut on a single action,
\* else the expansion of the root
start_search ==
    /\ pc = "idle"
    /\ \E starting_moves \in {get_all_actions(tree.board_arena[tree.arena[tree.root].board],
                                             MoveMemHandler_new)} :
           IF starting_moves = Fatal
           THEN /\ result' = Fatal
                /\ pc' = "done"
                /\ UNCHANGED tree
           ELSE IF MoveMemHandler_len(starting_moves) = 1
           THEN /\ result' = Some(MoveMemHandler_get(starting_moves, 0))
                /\ pc' = "done"
                /\ UNCHANGED tree
           ELSE \E expanded \in {expand(tree, tree.arena[tree.root])} :
                    IF expanded = Fatal
                    THEN /\ result' = Fatal
                         /\ pc' = "done"
                         /\ UNCHANGED tree
                    ELSE /\ tree' = expanded
                         /\ pc' = "search"
                         /\ UNCHANGED result
    /\ UNCHANGED <<iters, test_node, copy_board, played>>
    /\ UNCHANGED <<boardVars, listVars>>

\* expand_tree up to the loop of play_out: selection, expansion of the
\* selected node, choice of the node to play out, clone of its board
expand_tree ==
    /\ pc = "search"
    /\ iters < MaxIters
    /\ \E promising \in {select_node(tree.arena, tree.root)} :
           IF promising = Fatal
           THEN /\ result' = Fatal
                /\ pc' = "done"
                /\ UNCHANGED <<tree, test_node, copy_board>>
           ELSE \E expanded \in {expand(tree, tree.arena[promising.val])} :
                    IF expanded = Fatal
                    THEN /\ result' = Fatal
                         /\ pc' = "done"
                         /\ UNCHANGED <<tree, test_node, copy_board>>
                    ELSE \E list \in {PushAll(StaticList_new,
                                              children(expanded.arena, promising.val), 1)} :
                             IF list = Fatal
                             THEN /\ result' = Fatal
                                  /\ pc' = "done"
                                  /\ tree' = expanded
                                  /\ UNCHANGED <<test_node, copy_board>>
                             ELSE /\ tree' = expanded
                                  /\ \E node \in IF StaticList_len(list) > 0
                                                THEN {StaticList_get(list, index) :
                                                         index \in 0..(StaticList_len(list) - 1)}
                                                ELSE {promising.val} :
                                         /\ test_node' = node
                                         /\ copy_board' =
                                                Some(expanded.board_arena[expanded.arena[node].board])
                                  /\ pc' = "playout"
                                  /\ UNCHANGED result
    /\ played' = 0
    /\ UNCHANGED iters
    /\ UNCHANGED <<boardVars, listVars>>

\* one turn of the loop of play_out in which make_random_move makes a move
play_out_move ==
    /\ pc = "playout"
    /\ played < MaxPlayout
    /\ \E o \in make_random_move(copy_board.val) :
           /\ o.ret = None
           /\ copy_board' = Some(o.board)
    /\ played' = played + 1
    /\ UNCHANGED <<tree, pc, iters, test_node, result>>
    /\ UNCHANGED <<boardVars, listVars>>

\* play_out handing the opposite of the returned color to back_propagate
MutPlayOutEndOppositeWinner ==
    /\ pc = "playout"
    /\ \E o \in make_random_move(copy_board.val) :
           /\ o.ret # None
           /\ IF o.ret = Fatal
              THEN /\ result' = Fatal
                   /\ pc' = "done"
                   /\ UNCHANGED <<tree, iters>>
              ELSE /\ tree' = [tree EXCEPT !.arena =
                                  back_propagate(tree.arena, tree.board_arena,
                                                 test_node, opposite(o.ret.val))]
                   /\ iters' = iters + 1
                   /\ pc' = "search"
                   /\ UNCHANGED result
    /\ copy_board' = None
    /\ UNCHANGED <<test_node, played>>
    /\ UNCHANGED <<boardVars, listVars>>

\* the last turn of the loop of play_out, and back_propagate
play_out_end ==
    /\ pc = "playout"
    /\ \E o \in make_random_move(copy_board.val) :
           /\ o.ret # None
           /\ IF o.ret = Fatal
              THEN /\ result' = Fatal
                   /\ pc' = "done"
                   /\ UNCHANGED <<tree, iters>>
              ELSE /\ tree' = [tree EXCEPT !.arena =
                                  back_propagate(tree.arena, tree.board_arena,
                                                 test_node, o.ret.val)]
                   /\ iters' = iters + 1
                   /\ pc' = "search"
                   /\ UNCHANGED result
    /\ copy_board' = None
    /\ UNCHANGED <<test_node, played>>
    /\ UNCHANGED <<boardVars, listVars>>

\* the end of get_monte_carlo_move, after the last iteration
finish_search ==
    /\ pc = "search"
    /\ iters = MaxIters
    /\ result' = LET best == select_best_move(tree)
                 IN  IF best = Fatal THEN Fatal ELSE Some(best)
    /\ pc' = "done"
    /\ UNCHANGED <<tree, iters, test_node, copy_board, played>>
    /\ UNCHANGED <<boardVars, listVars>>

NextTree ==
    \/ start_search
    \/ expand_tree
    \/ play_out_move
    \/ play_out_end
    \/ finish_search

SpecTree == InitTree /\ [][NextTree]_vars

-----------------------------------------------------------------------------
(* The search with the loop of play_out followed to its end, however long  *)
(* it runs, on a root with a king of each side.  The loop of play_out      *)
(* takes its next turn as long as it has one; nothing is asked of the      *)
(* draws of the random number generator.                                   *)

\* iterations of the search loop in this specification (10000 in the source)
PlayoutIters == 1

\* a king of each side, two moves for Red
TwoKings == Position(Red, << <<0, 2, rk>>, <<7, 7, bk>> >>)

InitPlayout ==
    /\ board = TwoKings
    /\ ret = NoCall
    /\ act = None
    /\ plies = 0
    /\ op = "new"
    /\ tree = Tree_new(board)
    /\ pc = "idle"
    /\ iters = 0
    /\ test_node = 0
    /\ copy_board = None
    /\ played = 0
    /\ result = NoCall
    /\ FreshList

\* expand_tree in the iterations of this specification
expand_tree_once == iters < PlayoutIters /\ expand_tree

\* one turn of the loop of play_out in which make_random_move makes a move;
\* the loop does not count its turns
play_out_step ==
    /\ pc = "playout"
    /\ \E o \in make_random_move(copy_board.val) :
           /\ o.ret = None
           /\ copy_board' = Some(o.board)
    /\ UNCHANGED <<tree, pc, iters, test_node, played, result>>
    /\ UNCHANGED <<boardVars, listVars>>

\* the end of get_monte_carlo_move after the iterations of this specification
finish_search_once ==
    /\ pc = "search"
    /\ iters = PlayoutIters
    /\ result' = LET best == select_best_move(tree)
                 IN  IF best = Fatal THEN Fatal ELSE Some(best)
    /\ pc' = "done"
    /\ UNCHANGED <<tree, iters, test_node, copy_board, played>>
    /\ UNCHANGED <<boardVars, listVars>>

NextPlayout ==
    \/ start_search
    \/ expand_tree_once
    \/ play_out_step
    \/ play_out_end
    \/ finish_search_once

\* the loop of play_out: its next turn, or its exit
play_out_loop == play_out_step \/ play_out_end

\* the loop of play_out takes its next turn as long as it has one
SpecPlayout == InitPlayout /\ [][NextPlayout]_vars /\ WF_vars(play_out_loop)

-----------------------------------------------------------------------------
(* A StaticList on its own: any sequence of push, clear and get.  The items *)
(* are actions, as in the lists of MoveMemHandler.                          *)

\* items pushed between two clears
MaxListLen == 3

ListItems == {Move(0, 0, 1, 1), Move(2, 0, 3, 1)}

InitList ==
    /\ board = StandardStart
    /\ ret = NoCall
    /\ act = None
    /\ plies = 0
    /\ op = "new"
    /\ tree = NoTree
    /\ pc = "idle"
    /\ iters = 0
    /\ test_node = 0
    /\ copy_board = None
    /\ played = 0
    /\ result = NoCall
    /\ FreshList

list_push ==
    /\ static_list # Fatal
    /\ StaticList_len(static_list) < MaxListLen
    /\ \E item \in ListItems :
           /\ static_list' = StaticList_push(static_list, item)
           /\ pushed_items' = Append(pushed_items, item)
    /\ UNCHANGED <<get_index, got>>
    /\ UNCHANGED <<boardVars, treeVars>>

list_clear ==
    /\ static_list # Fatal
    /\ static_list' = StaticList_clear(static_list)
    /\ pushed_items' = << >>
    /\ UNCHANGED <<get_index, got>>
    /\ UNCHANGED <<boardVars, treeVars>>

\* get(index): Some(item) when it returns item, Fatal when it panics
list_get ==
    /\ static_list # Fatal
    /\ \E i \in 0..STATIC_SIZE :
           /\ get_index' = i
           /\ got' = LET item == StaticList_get(static_list, i)
                     IN  IF item = Fatal THEN Fatal ELSE Some(item)
    /\ UNCHANGED <<static_list, pushed_items>>
    /\ UNCHANGED <<boardVars, treeVars>>

NextList == list_push \/ list_clear \/ list_get

SpecList == InitList /\ [][NextList]_vars

-----------------------------------------------------------------------------
(* Vocabulary of the properties *)

Squares == 0..63
XOf(i) == i % 8
YOf(i) == i \div 8
Sq(x, y) == y * 8 + x

\* what get_action gives for the pieces of the side to move, square by
\* square and direction by direction
DerivedActions(b) ==
    UNION {{get_action(b, XOf(i), YOf(i), d[1], d[2], b.internal_state[i]).val :
               d \in {e \in {<<1, 1>>, <<-1, 1>>, <<1, -1>>, <<-1, -1>>} :
                   /\ \E k \in 1..Len(get_dirs(b.internal_state[i])) :
                          get_dirs(b.internal_state[i])[k] = e
                   /\ get_action(b, XOf(i), YOf(i), e[1], e[2],
                                 b.internal_state[i]).tag = "Some"}} :
           i \in {j \in Squares : /\ b.internal_state[j].tag = "Filled"
                                  /\ b.internal_state[j].color = b.current_turn}}

CaptureExists(b) == \E a \in DerivedActions(b) : a.tag = "Capture"
MoveExists(b) == \E a \in DerivedActions(b) : a.tag = "Move"

\* the legal actions under the rule of the mandatory capture
LegalActions(b) ==
    IF CaptureExists(b) THEN {a \in DerivedActions(b) : a.tag = "Capture"}
    ELSE DerivedActions(b)

\* the children of the root, in order, and as a set
RootChildren == children(tree.arena, tree.root)
RootChildSet == {RootChildren[k] : k \in 1..Len(RootChildren)}

RECURSIVE SumSims(_, _, _)
SumSims(arena, ids, k) ==
    IF k > Len(ids) THEN 0 ELSE arena[ids[k]].sims + SumSims(arena, ids, k + 1)

Siblings(arena, id) ==
    {j \in 1..Len(arena) : j # id /\ arena[j].parent = arena[id].parent}

\* the nodes from `id` up to the root
RECURSIVE PathToRoot(_, _)
PathToRoot(arena, id) ==
    IF arena[id].parent.tag = "Some"
    THEN {id} \cup PathToRoot(arena, arena[id].parent.val)
    ELSE {id}

ListedActions(b) == ExposedActions(get_all_actions(b, MoveMemHandler_new))

\* a step that executed an action on the board
Executed == plies' = plies + 1 /\ act'.tag = "Some"

KingRow(color) == IF color = Black THEN 7 ELSE 0

CountPieces(b, color) ==
    Cardinality({i \in Squares :
        b.internal_state[i].tag = "Filled" /\ b.internal_state[i].color = color})

-----------------------------------------------------------------------------
(* C1 *)

\* C1: after a Capture the mover keeps current_turn if and only if the moved
\* piece has a capture from its landing square; otherwise last_turn is the
\* mover and current_turn is the opponent.
C1_CaptureTurnRule ==
    [][(Executed /\ act'.val.tag = "Capture") =>
          LET a == act'.val
              more == piece_has_capture(board', a.nx, a.ny)
          IN  /\ (board'.current_turn = board.current_turn) <=> more
              /\ ~more => /\ board'.last_turn = Some(board.current_turn)
                          /\ board'.current_turn = opposite(board.current_turn)]_vars

-----------------------------------------------------------------------------
(* C2 *)

\* C2: when some piece of the side to move has a capture, every action that
\* len/get of the handler expose after get_all_actions is a Capture; when
\* none has, every exposed action is a Move.
C2_MandatoryCapture ==
    board # Fatal =>
        \A list \in {ListedActions(board)} :
            IF CaptureExists(board)
            THEN \A i \in 1..Len(list) : list[i].tag = "Capture"
            ELSE \A i \in 1..Len(list) : list[i].tag = "Move"

\* a position of a game in progress where a move was found before the first
\* capture of the scan
C2_Witness ==
    /\ board # Fatal
    /\ plies > 0
    /\ CaptureExists(board)
    /\ \E mm \in {get_all_actions(board, MoveMemHandler_new)} :
           /\ StaticList_len(mm.moves) > 0
           /\ StaticList_len(mm.captures) > 0
           /\ MoveMemHandler_len(mm) = StaticList_len(mm.captures)

-----------------------------------------------------------------------------
(* C3 *)

\* C3: executing Move{from, to} empties from, puts the piece on to (a king
\* if to.y is 7 for Black, 0 for Red), sets last_turn to the mover, gives
\* the turn to the opponent and changes no other square.
C3_MoveEffect ==
    [][(Executed /\ act'.val.tag = "Move") =>
          LET a == act'.val
              from == Sq(a.x, a.y)
              to == Sq(a.nx, a.ny)
              piece == board.internal_state[from]
              landed == Filled(piece.color, piece.king \/ a.ny = KingRow(piece.color))
          IN  /\ piece.tag = "Filled"
              /\ board'.internal_state =
                     [i \in Squares |-> IF i = from THEN Empty
                                        ELSE IF i = to THEN landed
                                        ELSE board.internal_state[i]]
              /\ board'.last_turn = Some(board.current_turn)
              /\ board'.current_turn = opposite(board.current_turn)]_vars

\* a Black man has just moved onto row 7
C3_Witness ==
    /\ board # Fatal
    /\ act.tag = "Some"
    /\ act.val.tag = "Move"
    /\ act.val.ny = 7
    /\ board.internal_state[Sq(act.val.nx, act.val.ny)] = Filled(Black, TRUE)
    /\ board.internal_state[Sq(act.val.x, act.val.y)] = Empty
    /\ board.last_turn = Some(Black)
    /\ board.current_turn = Red

-----------------------------------------------------------------------------
(* C4 *)

\* C4: the piece an action moves keeps its color; it is a king afterwards
\* exactly when it was one before or it landed on row 7 (Black) or row 0
\* (Red); and no other piece changes (it stays, or it is the captured one).
C4_KingingMonotonic ==
    [][Executed =>
          LET a == act'.val
              from == Sq(a.x, a.y)
              to == Sq(a.nx, a.ny)
              before == board.internal_state[from]
              after == board'.internal_state[to]
          IN  /\ before.tag = "Filled"
              /\ after.tag = "Filled"
              /\ after.color = before.color
              /\ after.king <=> (before.king \/ a.ny = KingRow(before.color))
              /\ \A i \in Squares \ {from, to} :
                     \/ board'.internal_state[i] = board.internal_state[i]
                     \/ board'.internal_state[i] = Empty]_vars

\* a piece promoted earlier has moved again, off its kinging row, and is
\* still a king
C4_Witness ==
    /\ board # Fatal
    /\ plies >= 3
    /\ act.tag = "Some"
    /\ LET landed == board.internal_state[Sq(act.val.nx, act.val.ny)]
       IN  /\ landed.tag = "Filled"
           /\ landed.king
           /\ act.val.ny # KingRow(landed.color)

-----------------------------------------------------------------------------
(* C5 *)

\* C5: make_random_move returns Some(opposite of current_turn) exactly when
\* the side to move has no action, and then changes nothing of the board;
\* otherwise it returns None after executing one action of the list.
C5_TerminalDetection ==
    [][op' = "make_random_move" =>
          IF DerivedActions(board) = {}
          THEN /\ ret' = Some(opposite(board.current_turn))
               /\ board' = board
          ELSE /\ ret' = None
               /\ \E list \in {ListedActions(board)} :
                      \E i \in 1..Len(list) :
                          /\ act' = Some(list[i])
                          /\ board' = execute_action(board, list[i])]_vars

\* a game played to its end: the side to move has no action left
C5_Witness ==
    /\ board # Fatal
    /\ plies > 0
    /\ ret = Some(opposite(board.current_turn))
    /\ DerivedActions(board) = {}

-----------------------------------------------------------------------------
(* C6 *)

StandardLayout(b) ==
    \A i \in Squares :
        b.internal_state[i] =
            IF YOf(i) \in 0..2 /\ (XOf(i) + YOf(i)) % 2 = 0 THEN Filled(Black, FALSE)
            ELSE IF YOf(i) \in 5..7 /\ (XOf(i) + YOf(i)) % 2 = 0 THEN Filled(Red, FALSE)
            ELSE Empty

\* C6: after reset() each side has exactly 12 men, Black on rows 0-2 and Red
\* on rows 5-7 of the squares with (x + y) even, and every other square is
\* empty.
C6_ResetInvariant ==
    op = "reset" =>
        /\ StandardLayout(board)
        /\ CountPieces(board, Black) = 12
        /\ CountPieces(board, Red) = 12

-----------------------------------------------------------------------------
(* C7 *)

\* C7: once the root has a child, after N iterations the sims of the root's
\* children add up to N and the sims of the root is N.
C7_VisitAccounting ==
    Len(RootChildren) > 0 =>
        /\ SumSims(tree.arena, RootChildren, 1) = iters
        /\ tree.arena[tree.root].sims = iters

\* the loop has run to its end and visited two children of the root
C7_Witness ==
    /\ pc = "search"
    /\ iters = MaxIters
    /\ Cardinality({c \in RootChildSet : tree.arena[c].sims > 0}) >= 2

-----------------------------------------------------------------------------
(* C8 *)

\* C8: when the root board has exactly one legal action the search never
\* enters its loop, and when it has returned the result is that action, no
\* iteration has run and the arenas are as Tree::new left them.
C8_SingleMoveShortcut ==
    Cardinality(LegalActions(board)) = 1 =>
        /\ pc \in {"idle", "done"}
        /\ iters = 0
        /\ tree = Tree_new(board)
        /\ pc = "done" => \E a \in LegalActions(board) : result = Some(a)

\* the search has returned the only action of the root
C8_Witness ==
    /\ pc = "done"
    /\ Cardinality(LegalActions(board)) = 1
    /\ result.tag = "Some"
    /\ Len(tree.arena) = 1

-----------------------------------------------------------------------------
(* C9 *)

\* C9: the action the search returns after its loop is the action_taken of
\* a child of the root with sims at least the sims of every other child.
C9_RobustChild ==
    (pc = "done" /\ result.tag = "Some" /\ Len(RootChildren) > 0) =>
        \E c \in RootChildSet :
            /\ tree.arena[c].action_taken = result
            /\ \A d \in RootChildSet : tree.arena[c].sims >= tree.arena[d].sims

\* the loop has run to its end and the child returned has more sims than
\* another child, which was visited too
C9_Witness ==
    /\ pc = "done"
    /\ result.tag = "Some"
    /\ iters = MaxIters
    /\ \E c, d \in RootChildSet :
           /\ tree.arena[c].action_taken = result
           /\ tree.arena[d].sims > 0
           /\ tree.arena[c].sims > tree.arena[d].sims

-----------------------------------------------------------------------------
(* C10 *)

\* C10: the UCT value of a node with sims = 0 is strictly greater than the
\* value of every sibling with sims > 0, and no node on the path of the
\* selection descent has sims > 0 while a sibling of it has sims = 0.
C10_UctExplorationBias ==
    /\ \A i \in 1..Len(tree.arena) :
           \A j \in Siblings(tree.arena, i) :
               (tree.arena[i].sims = 0 /\ tree.arena[j].sims > 0) =>
                   partial_cmp(uct_value(tree.arena[i], i, tree.arena),
                               uct_value(tree.arena[j], j, tree.arena)) = Some("Greater")
    /\ pc = "search" =>
           \A leaf \in {select_node(tree.arena, tree.root)} :
               /\ leaf # Fatal
               /\ \A i \in PathToRoot(tree.arena, leaf.val) :
                      tree.arena[i].sims > 0 =>
                          \A j \in Siblings(tree.arena, i) : tree.arena[j].sims > 0

\* the descent is about to take an unvisited node that comes before a
\* visited sibling in the order of the children
C10_Witness ==
    /\ pc = "search"
    /\ \E leaf \in {select_node(tree.arena, tree.root)} :
           /\ leaf # Fatal
           /\ \E i \in PathToRoot(tree.arena, leaf.val) :
                  /\ tree.arena[i].sims = 0
                  /\ \E j \in Siblings(tree.arena, i) : j > i /\ tree.arena[j].sims > 0

-----------------------------------------------------------------------------
(* C11 *)

OnBoard(x, y) == x \in 0..7 /\ y \in 0..7

\* the directions of a piece: the four diagonals for a king, dy = +1 for a
\* Black man, dy = -1 for a Red man
DirectionsOf(piece) ==
    IF piece.king THEN {<<1, 1>>, <<-1, 1>>, <<1, -1>>, <<-1, -1>>}
    ELSE IF piece.color = Black THEN {<<1, 1>>, <<-1, 1>>}
    ELSE {<<1, -1>>, <<-1, -1>>}

\* what the rule gives for the piece on (x, y) in direction (dx, dy), with
\* the coordinates as integers that may leave the board
RuleAction(b, x, y, dx, dy) ==
    LET piece == b.internal_state[Sq(x, y)]
        ax == x + dx
        ay == y + dy
        lx == x + 2 * dx
        ly == y + 2 * dy
    IN  IF OnBoard(ax, ay) /\ b.internal_state[Sq(ax, ay)] = Empty
        THEN Some(Move(x, y, ax, ay))
        ELSE IF /\ OnBoard(ax, ay)
                /\ b.internal_state[Sq(ax, ay)].tag = "Filled"
                /\ b.internal_state[Sq(ax, ay)].color # piece.color
                /\ OnBoard(lx, ly)
                /\ b.internal_state[Sq(lx, ly)] = Empty
        THEN Some(Capture(x, y, lx, ly, ax, ay))
        ELSE None

\* C11: for every occupied square and every direction of its piece (four
\* diagonals for a king, dy = +1 for a Black man, dy = -1 for a Red man)
\* get_action gives a Move to the adjacent square iff it is on the board and
\* empty, a Capture iff the adjacent square holds an opposing piece and the
\* landing square is on the board and empty, and nothing in every other case.
C11_PerSquareDerivation ==
    board # Fatal =>
        \A i \in {j \in Squares : board.internal_state[j].tag = "Filled"} :
            LET piece == board.internal_state[i]
                dirs == get_dirs(piece)
            IN  /\ {dirs[k] : k \in 1..Len(dirs)} = DirectionsOf(piece)
                /\ \A k \in 1..Len(dirs) :
                       get_action(board, XOf(i), YOf(i), dirs[k][1], dirs[k][2], piece)
                           = RuleAction(board, XOf(i), YOf(i), dirs[k][1], dirs[k][2])

\* a position of a game in progress with, for pieces on it: a direction that
\* leaves the board below 0, one that leaves it above 7, an own piece next to
\* a piece with the square behind it empty, and an opposing piece that cannot
\* be captured because the landing square is off the board or occupied
C11_Witness ==
    /\ board # Fatal
    /\ plies > 0
    /\ LET occupied == {j \in Squares : board.internal_state[j].tag = "Filled"}
           Dirs(j) == DirectionsOf(board.internal_state[j])
           Adj(j, d) == board.internal_state[Sq(XOf(j) + d[1], YOf(j) + d[2])]
       IN  /\ \E j \in occupied : \E d \in Dirs(j) :
                  XOf(j) + d[1] < 0 \/ YOf(j) + d[2] < 0
           /\ \E j \in occupied : \E d \in Dirs(j) :
                  XOf(j) + d[1] > 7 \/ YOf(j) + d[2] > 7
           /\ \E j \in occupied : \E d \in Dirs(j) :
                  /\ OnBoard(XOf(j) + 2 * d[1], YOf(j) + 2 * d[2])
                  /\ Adj(j, d).tag = "Filled"
                  /\ Adj(j, d).color = board.internal_state[j].color
                  /\ board.internal_state[Sq(XOf(j) + 2 * d[1], YOf(j) + 2 * d[2])] = Empty
           /\ \E j \in occupied : \E d \in Dirs(j) :
                  /\ OnBoard(XOf(j) + d[1], YOf(j) + d[2])
                  /\ Adj(j, d).tag = "Filled"
                  /\ Adj(j, d).color # board.internal_state[j].color
                  /\ get_action(board, XOf(j), YOf(j), d[1], d[2],
                                board.internal_state[j]) = None

-----------------------------------------------------------------------------
(* C12 *)

\* C12: in every position reached by listed actions from the standard start
\* get_all_actions pushes at most STATIC_SIZE moves and at most STATIC_SIZE
\* captures: no push of move generation panics, neither in the call the
\* position is about to make nor in one already made.
C12_CapacityBound ==
    /\ board # Fatal
    /\ get_all_actions(board, MoveMemHandler_new) # Fatal

-----------------------------------------------------------------------------
(* C13 *)

\* the step that ends a play_out and back-propagates its result
PlayoutEnds == pc = "playout" /\ pc' = "search"

\* the back-propagation of the step credits color w: on the path from the
\* rollout node to the root, wins grows by one at the nodes whose snapshot
\* has last_turn = Some(w) and stays at the others
CreditedWinner(w) ==
    \A i \in PathToRoot(tree.arena, test_node) :
        tree'.arena[i].wins =
            IF tree.board_arena[tree.arena[i].board].last_turn = Some(w)
            THEN tree.arena[i].wins + 1
            ELSE tree.arena[i].wins

\* C13 as stated: the color make_random_move returns at the end of a playout
\* is the loser, the side to move that has no action, and back_propagate
\* credits its opposite.
C13_ReturnedColorIsLoser ==
    [][PlayoutEnds =>
          \A o \in make_random_move(copy_board.val) :
              /\ o.ret.tag = "Some"
              /\ o.ret.val = copy_board.val.current_turn
              /\ CreditedWinner(opposite(o.ret.val))]_vars

\* C13 amended: the color make_random_move returns at the end of a playout
\* is the opponent of the side to move, which has no action: the winner; and
\* back_propagate credits that same color.
C13_ReturnedColorIsWinner ==
    [][PlayoutEnds =>
          \A o \in make_random_move(copy_board.val) :
              /\ DerivedActions(copy_board.val) = {}
              /\ o.ret = Some(opposite(copy_board.val.current_turn))
              /\ CreditedWinner(o.ret.val)]_vars

\* a playout has ended and its back-propagation has credited a node whose
\* mover won and passed a node whose mover lost
C13_Witness ==
    /\ pc = "search"
    /\ iters > 0
    /\ \E i, j \in 2..Len(tree.arena) :
           /\ tree.arena[i].wins > 0
           /\ tree.arena[j].sims > tree.arena[j].wins
           /\ tree.board_arena[tree.arena[j].board].last_turn # None

-----------------------------------------------------------------------------
(* C14 *)

\* the board snapshot of node i
SnapshotOf(t, i) == t.board_arena[t.arena[i].board]

\* C14: for every node but the root, last_turn of its snapshot is the color
\* that executed its action_taken, the current_turn of the parent's
\* snapshot, also when the action is a capture that leaves a further
\* capture.
C14_WinCrediting ==
    \A i \in 1..Len(tree.arena) :
        tree.arena[i].parent.tag = "Some" =>
            SnapshotOf(tree, i).last_turn =
                Some(SnapshotOf(tree, tree.arena[i].parent.val).current_turn)

-----------------------------------------------------------------------------
(* C15 *)

\* C15: one back-propagation from the rollout node with winner W adds 1 to
\* sims at the rollout node and at each of its ancestors up to the root, adds
\* 1 to wins at exactly the nodes of that path whose snapshot has last_turn
\* = Some(W), never where last_turn is None, and changes no other node.
C15_BackpropagationStep ==
    [][PlayoutEnds =>
          \E o \in make_random_move(copy_board.val) :
              /\ o.ret.tag = "Some"
              /\ Len(tree'.arena) = Len(tree.arena)
              /\ tree'.board_arena = tree.board_arena
              /\ \A i \in 1..Len(tree.arena) :
                     IF i \in PathToRoot(tree.arena, test_node)
                     THEN /\ tree'.arena[i].sims = tree.arena[i].sims + 1
                          /\ tree'.arena[i].wins - tree.arena[i].wins \in {0, 1}
                          /\ (tree'.arena[i].wins = tree.arena[i].wins + 1)
                                 <=> (SnapshotOf(tree, i).last_turn = o.ret)
                          /\ SnapshotOf(tree, i).last_turn = None =>
                                 tree'.arena[i].wins = tree.arena[i].wins
                          /\ [tree'.arena[i] EXCEPT !.sims = 0, !.wins = 0]
                                 = [tree.arena[i] EXCEPT !.sims = 0, !.wins = 0]
                     ELSE tree'.arena[i] = tree.arena[i]]_vars

\* a back-propagation has run from a node two levels below the root, past a
\* node it credited and one it did not, up to a root whose last_turn is None,
\* with a node off the path left unvisited
C15_Witness ==
    /\ pc = "search"
    /\ iters > 0
    /\ test_node # 0
    /\ LET path == PathToRoot(tree.arena, test_node)
       IN  /\ Cardinality(path) >= 3
           /\ \E i \in path : tree.arena[i].wins > 0
           /\ \E i \in path \ {tree.root} : tree.arena[i].wins < tree.arena[i].sims
           /\ SnapshotOf(tree, tree.root).last_turn = None
           /\ tree.arena[tree.root].sims > 0
           /\ tree.arena[tree.root].wins = 0
           /\ \E j \in (1..Len(tree.arena)) \ path : tree.arena[j].sims = 0

-----------------------------------------------------------------------------
(* C16 *)

\* C16: once an action has been executed on the board, a Move or a Capture,
\* also a capture that leaves a further capture, last_turn is Some(color).
C16_LastTurnSet ==
    (board # Fatal /\ plies > 0) => board.last_turn.tag = "Some"

-----------------------------------------------------------------------------
(* C17 *)

\* node i has one child per legal action of its snapshot, in the order of
\* the enumeration, each with the snapshot the action gives
FullyExpanded(t, i) ==
    LET ids == children(t.arena, i)
    IN  \A listed \in {ListedActions(SnapshotOf(t, i))} :
            /\ Len(ids) = Len(listed)
            /\ Len(ids) = Cardinality(LegalActions(SnapshotOf(t, i)))
            /\ \A k \in 1..Len(ids) :
                   /\ t.arena[ids[k]].action_taken = Some(listed[k])
                   /\ listed[k] \in LegalActions(SnapshotOf(t, i))
                   /\ SnapshotOf(t, ids[k]) = execute_action(SnapshotOf(t, i), listed[k])

\* C17: at every point of the search every node has no child or exactly one
\* child per legal action of its snapshot, in enumeration order, whose
\* snapshot is the node's with the child's action_taken executed; a node that
\* has children never gets another, and no stored snapshot ever changes.
C17_ExpansionShape ==
    /\ [](\A i \in 1..Len(tree.arena) :
             Len(children(tree.arena, i)) = 0 \/ FullyExpanded(tree, i))
    /\ [][/\ \A i \in 1..Len(tree.arena) :
                 Len(children(tree.arena, i)) > 0 =>
                     children(tree'.arena, i) = children(tree.arena, i)
           /\ \A k \in 1..Len(tree.board_arena) :
                 /\ k <= Len(tree'.board_arena)
                 /\ tree'.board_arena[k] = tree.board_arena[k]]_vars

\* the search has expanded a node below the root that has several legal
\* actions, and the selection has come back to a node below the root that it
\* had expanded before and has gone on to expand a child of it
C17_Witness ==
    /\ pc = "search"
    /\ \E i \in 2..Len(tree.arena) : Len(children(tree.arena, i)) >= 2
    /\ \E i \in 2..Len(tree.arena) :
           /\ tree.arena[i].sims >= 2
           /\ \E c \in 1..Len(tree.arena) :
                  /\ tree.arena[c].parent = Some(i)
                  /\ Len(children(tree.arena, c)) > 0

-----------------------------------------------------------------------------
(* C18 *)

\* C18: every playout that starts eventually reaches a position where the
\* side to move has no action, make_random_move returns Some(color) and the
\* loop of play_out exits.
C18_PlayoutTermination ==
    [](pc = "playout" => <>(pc # "playout"))

-----------------------------------------------------------------------------
(* C19 *)

\* C19: after any sequence of push and clear, get(i) panics when i is at
\* least the current length, also when slot i held an item before a clear,
\* and returns the i-th item pushed since the last clear when i is below the
\* current length.
C19_IndexCheck ==
    [][list_get =>
          got' = IF get_index' >= StaticList_len(static_list) THEN Fatal
                 ELSE Some(pushed_items[get_index' + 1])]_vars

-----------------------------------------------------------------------------
(* C20 *)

\* sims of node i less the sims of its children
OwnSims(t, i) == t.arena[i].sims - SumSims(t.arena, children(t.arena, i), 1)

\* C20 as stated: between two iterations of the search and after the last,
\* the sims of every node that has a child is the sum of the sims of its
\* children, and the sims of every node but the root is at most the sims of
\* its parent.
C20_SimsSumOfChildren ==
    pc \in {"search", "done"} =>
        \A i \in 1..Len(tree.arena) :
            /\ Len(children(tree.arena, i)) > 0 => OwnSims(tree, i) = 0
            /\ tree.arena[i].parent.tag = "Some" =>
                   tree.arena[i].sims <= tree.arena[tree.arena[i].parent.val].sims

\* C20: at every point of the search the sims of the root, once it has a
\* child, is the sum of the sims of its children; the sims of any other node that has a child is that sum or
\* one more (the playout the node was given before it was expanded); the
\* sims of every node but the root is at most the sims of its parent, so the
\* UCT value of no node but the root is NaN and the selection descent, which
\* compares those values only, finds its node.
C20_SimsBounds ==
    /\ \A i \in 1..Len(tree.arena) :
           /\ Len(children(tree.arena, i)) > 0 =>
                  OwnSims(tree, i) \in (IF i = tree.root THEN {0} ELSE {0, 1})
           /\ tree.arena[i].parent.tag = "Some" =>
                  /\ tree.arena[i].sims <= tree.arena[tree.arena[i].parent.val].sims
                  /\ uct_value(tree.arena[i], i, tree.arena) # NaN
    /\ Len(tree.arena) > 0 => select_node(tree.arena, tree.root) # Fatal

\* the loop has run to its end; a node below the root was given a playout,
\* then expanded and visited again through a child, and another node below
\* the root was expanded before it was given any playout
C20_Witness ==
    /\ pc = "search"
    /\ iters = MaxIters
    /\ \E i, j \in 2..Len(tree.arena) :
           /\ Len(children(tree.arena, i)) > 0
           /\ OwnSims(tree, i) = 1
           /\ Len(children(tree.arena, j)) > 0
           /\ OwnSims(tree, j) = 0
           /\ tree.arena[j].sims > 0

-----------------------------------------------------------------------------
(* C21 *)

\* the board Tree::new was given, as the root keeps it
RootSnapshot == tree.board_arena[tree.arena[tree.root].board]

\* C21: when the root snapshot has a legal action, what get_monte_carlo_move
\* returns is one of the actions get_all_actions lists for the root
\* snapshot: an action get_action derives for a piece of the side to move,
\* and a capture whenever that side has a capture.
C21_ReturnedActionLegal ==
    (pc = "done" /\ Cardinality(LegalActions(RootSnapshot)) >= 1) =>
        /\ result.tag = "Some"
        /\ \E k \in 1..Len(ListedActions(RootSnapshot)) :
               ListedActions(RootSnapshot)[k] = result.val
        /\ result.val \in DerivedActions(RootSnapshot)
        /\ CaptureExists(RootSnapshot) => result.val.tag = "Capture"

\* the search has run its loop to the end and returned, from a root where
\* the side to move has several captures and a simple move it may not play
C21_Witness ==
    /\ pc = "done"
    /\ iters = MaxIters
    /\ result.tag = "Some"
    /\ CaptureExists(RootSnapshot)
    /\ Cardinality(LegalActions(RootSnapshot)) >= 2
    /\ \E a \in DerivedActions(RootSnapshot) : a.tag = "Move"

-----------------------------------------------------------------------------
(* C22 *)

\* the squares reset fills: those with (x + y) mod 2 = 0
DarkSquare(i) == (XOf(i) + YOf(i)) % 2 = 0

\* C22: in a game from the standard start, a Move leaves the number of
\* pieces of both sides as it was, a Capture takes exactly one piece from
\* the opponent of the mover and none from the mover, no step adds a piece,
\* and every piece is on a square with (x + y) mod 2 = 0.
C22_PieceConservation ==
    /\ [](board # Fatal =>
             \A i \in Squares : board.internal_state[i].tag = "Filled" => DarkSquare(i))
    /\ [][(board # Fatal /\ board' # Fatal) =>
             /\ \A color \in Color : CountPieces(board', color) <= CountPieces(board, color)
             /\ Executed =>
                    LET mover == board.current_turn
                        taken == IF act'.val.tag = "Capture" THEN 1 ELSE 0
                    IN  /\ CountPieces(board', mover) = CountPieces(board, mover)
                        /\ CountPieces(board', opposite(mover)) =
                               CountPieces(board, opposite(mover)) - taken]_vars

\* far into a game from the standard start a capture has just been executed:
\* Red has lost several pieces, Black none, and Black has a king
C22_Witness ==
    /\ board # Fatal
    /\ plies > MaxPlies
    /\ act.tag = "Some"
    /\ act.val.tag = "Capture"
    /\ CountPieces(board, Black) = CountPieces(StandardStart, Black)
    /\ CountPieces(board, Red) < CountPieces(StandardStart, Red) - 3
    /\ \E i \in Squares : board.internal_state[i] = Filled(Black, TRUE)

====
